---- MODULE Spec2Model ----
(***************************************************************************)
(* Personal-finance dashboard: the ledger kept by the account, category    *)
(* and transaction controllers over the Account / Category / Transaction   *)
(* collections.                                                            *)
(*                                                                         *)
(* Money is counted in half cents (1 = 0.005, 2 = 0.01, 200 = 1.00), so    *)
(* that the two-decimal setters of the schemas are real roundings.  The    *)
(* arithmetic is exact decimal arithmetic; on the sub-cent values the       *)
(* properties below turn on (0 - 0.005, 0.005 - 0.01, 0 + 0.01) IEEE       *)
(* doubles give the same roundings.                                        *)
(***************************************************************************)
EXTENDS Integers, Sequences, FiniteSets, TLC

VARIABLES
  registered,      \* users that completed registration
  accounts,        \* Account collection: _id -> document
  categories,      \* Category collection: _id -> document
  transactions,    \* Transaction collection: _id -> document
  nextAccountId,   \* next fresh Account _id
  nextCategoryId,  \* next fresh Category _id
  nextTxnId,       \* next fresh Transaction _id
  last,            \* the last handled request and its response
  pc,              \* concurrent requests: position of each handler
  rq,              \* concurrent requests: the request body of each handler
  doc,             \* concurrent requests: the Account document each handler read
  writes,          \* concurrent requests: handlers in order of their account.save()
  budgets,         \* Budget collection: _id -> document
  nextBudgetId,    \* next fresh Budget _id
  uploads,         \* temporary files in the upload directory
  nextFileId,      \* next fresh temporary file
  up,              \* upload requests: position, file and response of each handler
  health           \* financial health: what the queries returned and the response

vars == <<registered, accounts, categories, transactions, nextAccountId,
          nextCategoryId, nextTxnId, last, pc, rq, doc, writes,
                 budgets, nextBudgetId, uploads, nextFileId, up, health>>


----------------------------------------------------------------------------
(* Bounds of the model *)

MaxAccounts == 5      \* Account documents ever created
MaxCategories == 9    \* Category documents ever created
MaxTxns == 1          \* a request inserts transactions only while fewer were created
MaxBatch == 2         \* rows in one bulk-import request

Users == {"u1", "u2"}
Types == {"income", "expense"}
MissingId == 0        \* a well-formed id that names no document

----------------------------------------------------------------------------
(* Values and conversions *)

Abs(n) == IF n < 0 THEN -n ELSE n

\* Math.round(val * 100) / 100 on half cents: nearest cent, ties toward +infinity
Round2(h) == 2 * ((h + 1) \div 2)

\* the signed effect of a transaction on its account
Signed(type, amount) == IF type = "income" THEN amount ELSE -amount


\* remove key k from the collection c
Without(c, k) == [i \in DOMAIN c \ {k} |-> c[i]]

\* the collection c with document d stored under k
With(c, k, d) == [i \in DOMAIN c \cup {k} |-> IF i = k THEN d ELSE c[i]]

RECURSIVE SumOver(_, _)
SumOver(f, S) ==
  IF S = {} THEN 0
  ELSE LET x == CHOOSE y \in S : TRUE IN f[x] + SumOver(f, S \ {x})

\* the request body carries the key
Has(updates, key) == key \in DOMAIN updates

\* smallest element of a non-empty set of ids: the first document in
\* insertion (natural) order
MinOf(S) == CHOOSE x \in S : \A y \in S : x <= y

----------------------------------------------------------------------------
(* The last request: its handler, its requester, the status of its response,
   the document it was about (txn, account and the balance of that account
   before the request), and for a bulk import the batch and the counts of
   the response.  undone marks a deleteTransaction that directly follows the
   createTransaction of the same document; before is then still the balance
   before that create. *)

Resp(op, u, status) ==
  [op |-> op, user |-> u, status |-> status, txn |-> 0, account |-> 0, before |-> 0,
   undone |-> FALSE, batch |-> <<>>, imported |-> 0, errors |-> 0, total |-> 0,
   details |-> <<>>]

NoResp == Resp("none", "none", 0)

----------------------------------------------------------------------------
(* Documents *)

AccountDoc(u, name, type, balance, initialBalance) ==
  [userId |-> u, name |-> name, type |-> type, balance |-> balance,
   initialBalance |-> initialBalance, isActive |-> TRUE]

CategoryDoc(u, name, type, isDefault) ==
  [userId |-> u, name |-> name, type |-> type, isDefault |-> isDefault,
   isActive |-> TRUE, parentCategory |-> MissingId]

TxnDoc(u, accountId, categoryId, amount, type) ==
  [userId |-> u, accountId |-> accountId, categoryId |-> categoryId,
   amount |-> amount, type |-> type]

\* first and last default category of each type, in the order of the list
defaultCategories ==
  << [name |-> "Food & Dining", type |-> "expense"],
     [name |-> "Other Expenses", type |-> "expense"],
     [name |-> "Salary", type |-> "income"],
     [name |-> "Other Income", type |-> "income"] >>

defaultAccounts ==
  << [name |-> "Main Checking", type |-> "checking"],
     [name |-> "Savings", type |-> "savings"] >>

----------------------------------------------------------------------------
(* Queries *)

\* an account lookup without the owner filter
ActiveAccountOfAnyone(u, id) == id \in DOMAIN accounts /\ accounts[id].isActive

\* Account.findOne({ _id, userId, isActive: true })
ActiveAccountOf(u, id) ==
  /\ id \in DOMAIN accounts
  /\ accounts[id].userId = u
  /\ accounts[id].isActive

\* a category lookup that leaves the type out of the filter
ActiveCategoryOfAnyType(u, id, type) ==
  /\ id \in DOMAIN categories
  /\ categories[id].userId = u
  /\ categories[id].isActive

\* Category.findOne({ _id, userId, type, isActive: true })
ActiveCategoryOf(u, id, type) ==
  /\ id \in DOMAIN categories
  /\ categories[id].userId = u
  /\ categories[id].type = type
  /\ categories[id].isActive

\* Transaction.findOne({ _id, userId })
TxnOf(u, id) == id \in DOMAIN transactions /\ transactions[id].userId = u

\* the transactions linked to account a
TxnsOfAccount(a) == {t \in DOMAIN transactions : transactions[t].accountId = a}

\* initialBalance plus the signed sum of the linked transactions
LedgerBalance(a) ==
  accounts[a].initialBalance
    + SumOver([t \in DOMAIN transactions |->
                 Signed(transactions[t].type, transactions[t].amount)],
              TxnsOfAccount(a))

\* getAccountBalanceHistory: the last runningBalance, account.initialBalance
\* plus the signed amounts of the transactions found by { accountId, userId }
runningBalance(u, a) ==
  accounts[a].initialBalance
    + SumOver([t \in DOMAIN transactions |->
                 Signed(transactions[t].type, transactions[t].amount)],
              {t \in TxnsOfAccount(a) : transactions[t].userId = u})

----------------------------------------------------------------------------
(* Initial state: an empty database, no request in flight *)

Procs == {"p1", "p2"}
NoRq == [user |-> "none", accountId |-> MissingId, categoryId |-> MissingId,
         amount |-> 0, type |-> "none", txn |-> 0]
\* no financial-health request yet
NoHealth == [asked |-> FALSE]

\* no upload request in the handler
NoUpload == [pc |-> "idle", file |-> 0, ext |-> "", content |-> "", status |-> 0]

NoDoc == [balance |-> 0, seen |-> 0]

Init ==
  /\ registered = {}
  /\ accounts = <<>>
  /\ categories = <<>>
  /\ transactions = <<>>
  /\ nextAccountId = 1
  /\ nextCategoryId = 1
  /\ nextTxnId = 1
  /\ last = NoResp
  /\ pc = [p \in Procs |-> "idle"]
  /\ rq = [p \in Procs |-> NoRq]
  /\ doc = [p \in Procs |-> NoDoc]
  /\ writes = <<>>
  /\ budgets = <<>>
  /\ nextBudgetId = 1
  /\ uploads = {}
  /\ nextFileId = 1
  /\ up = [p \in Procs |-> NoUpload]
  /\ health = NoHealth

----------------------------------------------------------------------------
(* Registration: seeds the default categories and accounts of a new user *)

register(u) ==
  /\ u \notin registered
  /\ nextAccountId + Len(defaultAccounts) - 1 <= MaxAccounts
  /\ nextCategoryId + Len(defaultCategories) - 1 <= MaxCategories
  /\ registered' = registered \cup {u}
  /\ categories' =
       [i \in DOMAIN categories \cup
              (nextCategoryId .. nextCategoryId + Len(defaultCategories) - 1) |->
          IF i \in DOMAIN categories THEN categories[i]
          ELSE LET c == defaultCategories[i - nextCategoryId + 1]
               IN CategoryDoc(u, c.name, c.type, TRUE)]
  /\ accounts' =
       [i \in DOMAIN accounts \cup
              (nextAccountId .. nextAccountId + Len(defaultAccounts) - 1) |->
          IF i \in DOMAIN accounts THEN accounts[i]
          ELSE LET a == defaultAccounts[i - nextAccountId + 1]
               IN AccountDoc(u, a.name, a.type, 0, 0)]
  /\ nextCategoryId' = nextCategoryId + Len(defaultCategories)
  /\ nextAccountId' = nextAccountId + Len(defaultAccounts)
  /\ last' = Resp("register", u, 201)
  /\ UNCHANGED <<transactions, nextTxnId, pc, rq, doc, writes,
                 budgets, nextBudgetId, uploads, nextFileId, up, health>>

----------------------------------------------------------------------------
(* Accounts *)

AccountNames == {"Main Checking", "Cash"}
OpeningBalances == {0, 3}

createAccount(u, name, balance) ==
  /\ u \in registered
  /\ IF \E a \in DOMAIN accounts :
          accounts[a].userId = u /\ accounts[a].name = name /\ accounts[a].isActive
     THEN /\ last' = Resp("createAccount", u, 400)
          /\ UNCHANGED <<accounts, nextAccountId>>
     ELSE \* setter on balance, then pre('save'): initialBalance = balance
          /\ nextAccountId <= MaxAccounts
          /\ accounts' = With(accounts, nextAccountId,
                              AccountDoc(u, name, "cash", Round2(balance), Round2(balance)))
          /\ nextAccountId' = nextAccountId + 1
          /\ last' = [Resp("createAccount", u, 201) EXCEPT !.account = nextAccountId]
  /\ UNCHANGED <<registered, categories, transactions, nextCategoryId, nextTxnId,
                 pc, rq, doc, writes,
                 budgets, nextBudgetId, uploads, nextFileId, up, health>>

\* request bodies of updateAccount: the keys present are the keys applied
AccountUpdates ==
  {[name |-> n] : n \in AccountNames}
    \cup {[balance |-> b] : b \in {3}}
    \cup {[initialBalance |-> b] : b \in {2}}
    \cup {[isActive |-> b] : b \in BOOLEAN}
    \cup {[userId |-> v] : v \in Users}

\* the bodies that switch the active flag
ActiveFlags == {[isActive |-> b] : b \in BOOLEAN}

\* Object.keys(updates).forEach: balance through Number and the setter,
\* every other key assigned as it is
ApplyAccountUpdates(account, updates) ==
  [k \in DOMAIN account |->
     IF k \in DOMAIN updates
     THEN IF k = "balance" THEN Round2(updates[k]) ELSE updates[k]
     ELSE account[k]]

updateAccount(u, id, updates) ==
  /\ u \in registered
  /\ IF ~(id \in DOMAIN accounts /\ accounts[id].userId = u)
     THEN /\ last' = Resp("updateAccount", u, 404)
          /\ UNCHANGED accounts
     ELSE IF /\ "name" \in DOMAIN updates
             /\ updates.name # accounts[id].name
             /\ \E a \in DOMAIN accounts \ {id} :
                  /\ accounts[a].userId = u
                  /\ accounts[a].name = updates.name
                  /\ accounts[a].isActive
     THEN /\ last' = Resp("updateAccount", u, 400)
          /\ UNCHANGED accounts
     ELSE /\ accounts' = [accounts EXCEPT ![id] = ApplyAccountUpdates(@, updates)]
          /\ last' = [Resp("updateAccount", u, 200) EXCEPT
                        !.account = id, !.before = accounts[id].balance]
  /\ UNCHANGED <<registered, categories, transactions, nextAccountId, nextCategoryId,
                 nextTxnId, pc, rq, doc, writes,
                 budgets, nextBudgetId, uploads, nextFileId, up, health>>

deleteAccount(u, id) ==
  /\ u \in registered
  /\ IF ~(id \in DOMAIN accounts /\ accounts[id].userId = u)
     THEN /\ last' = Resp("deleteAccount", u, 404)
          /\ UNCHANGED accounts
     ELSE \* Transaction.countDocuments({ accountId, userId })
          LET transactionCount ==
                Cardinality({t \in DOMAIN transactions :
                               /\ transactions[t].accountId = id
                               /\ transactions[t].userId = u})
          IN /\ accounts' = IF transactionCount > 0
                            THEN [accounts EXCEPT ![id].isActive = FALSE]
                            ELSE Without(accounts, id)
             /\ last' = [Resp("deleteAccount", u, 200) EXCEPT
                           !.account = id, !.before = accounts[id].balance]
  /\ UNCHANGED <<registered, categories, transactions, nextAccountId, nextCategoryId,
                 nextTxnId, pc, rq, doc, writes,
                 budgets, nextBudgetId, uploads, nextFileId, up, health>>

----------------------------------------------------------------------------
(* Categories *)

CategoryNames == {"Salary", "Gifts"}

\* a pre('save') hook that lets every document through
PreSaveAny(category) == category.isActive \in BOOLEAN

\* categorySchema.pre('save'): a default category cannot be inactive
PreSaveOk(category) == ~(category.isDefault /\ ~category.isActive)

\* a unique index that no document violates
NameAny(id, category) == category.name = category.name

\* categorySchema.index({ userId: 1, name: 1 }, { unique: true }): no other
\* document of the owner has the name
NameFree(id, category) ==
  \A c \in DOMAIN categories \ {id} :
    ~(categories[c].userId = category.userId /\ categories[c].name = category.name)

createCategoryStatus(u, name, type, parentCategory) ==
  IF \E c \in DOMAIN categories :
       /\ categories[c].userId = u
       /\ categories[c].name = name
       /\ categories[c].type = type
       /\ categories[c].isActive
  THEN 400
  ELSE IF parentCategory # MissingId /\ ~ActiveCategoryOf(u, parentCategory, type)
  THEN 400
  ELSE IF ~NameFree(MissingId,
                    [CategoryDoc(u, name, type, FALSE) EXCEPT !.parentCategory = parentCategory])
  THEN 400  \* duplicate key error 11000
  ELSE 201

createCategory(u, name, type, parentCategory) ==
  /\ u \in registered
  /\ LET status == createCategoryStatus(u, name, type, parentCategory)
         category ==
           [CategoryDoc(u, name, type, FALSE) EXCEPT !.parentCategory = parentCategory]
     IN IF status = 201
        THEN /\ nextCategoryId <= MaxCategories
             /\ categories' = With(categories, nextCategoryId, category)
             /\ nextCategoryId' = nextCategoryId + 1
             /\ last' = Resp("createCategory", u, 201)
        ELSE /\ last' = Resp("createCategory", u, status)
             /\ UNCHANGED <<categories, nextCategoryId>>
  /\ UNCHANGED <<registered, accounts, transactions, nextAccountId, nextTxnId,
                 pc, rq, doc, writes,
                 budgets, nextBudgetId, uploads, nextFileId, up, health>>

\* request bodies of updateCategory: the keys present are the keys applied
CategoryUpdates ==
  {[name |-> n] : n \in CategoryNames}
    \cup {[type |-> t] : t \in Types}
    \cup {[isActive |-> b] : b \in BOOLEAN}
    \cup {[isDefault |-> FALSE]}
    \cup {[parentCategory |-> c] : c \in DOMAIN categories}
    \cup {[userId |-> v] : v \in Users}

\* the bodies that change the type or the active flag
CategoryTypeOrFlag ==
  {[type |-> t] : t \in Types} \cup {[isActive |-> b] : b \in BOOLEAN}

ApplyCategoryUpdates(category, updates) ==
  [k \in DOMAIN category |-> IF k \in DOMAIN updates THEN updates[k] ELSE category[k]]

\* a guard of default categories that refuses only a new name
DefaultName(category, updates) == category.isDefault /\ Has(updates, "name")

\* category.isDefault && (updates.name || updates.type), the names and
\* types of the model being non-empty strings
DefaultNameOrType(category, updates) ==
  category.isDefault /\ (Has(updates, "name") \/ Has(updates, "type"))

updateCategoryStatus(u, id, updates) ==
  IF ~(id \in DOMAIN categories /\ categories[id].userId = u) THEN 404
  ELSE
    LET category == categories[id]
        newType == IF "type" \in DOMAIN updates THEN updates.type ELSE category.type
        updated == ApplyCategoryUpdates(category, updates)
    IN
    IF DefaultNameOrType(category, updates) THEN 400
    ELSE IF /\ "name" \in DOMAIN updates
            /\ updates.name # category.name
            /\ \E c \in DOMAIN categories \ {id} :
                 /\ categories[c].userId = u
                 /\ categories[c].name = updates.name
                 /\ categories[c].type = newType
                 /\ categories[c].isActive
    THEN 400
    ELSE IF /\ "parentCategory" \in DOMAIN updates
            \* the filter names _id twice and the second, { $ne: categoryId },
            \* replaces the first: any other active category of the owner
            \* and type satisfies it
            /\ ~\E c \in DOMAIN categories \ {id} :
                  /\ categories[c].userId = u
                  /\ categories[c].type = newType
                  /\ categories[c].isActive
    THEN 400
    ELSE IF ~PreSaveOk(updated) \/ ~NameFree(id, updated)
    THEN 500  \* save() fails: nothing is stored
    ELSE 200

updateCategory(u, id, updates) ==
  /\ u \in registered
  /\ LET status == updateCategoryStatus(u, id, updates)
     IN /\ categories' =
             IF status = 200
             THEN [categories EXCEPT ![id] = ApplyCategoryUpdates(categories[id], updates)]
             ELSE categories
        /\ last' = Resp("updateCategory", u, status)
  /\ UNCHANGED <<registered, accounts, transactions, nextAccountId, nextCategoryId,
                 nextTxnId, pc, rq, doc, writes,
                 budgets, nextBudgetId, uploads, nextFileId, up, health>>

deleteCategoryStatus(u, id) ==
  IF ~(id \in DOMAIN categories /\ categories[id].userId = u) THEN 404
  ELSE IF categories[id].isDefault THEN 400
  ELSE 200

deleteCategory(u, id) ==
  /\ u \in registered
  /\ LET status == deleteCategoryStatus(u, id)
         \* Transaction.countDocuments({ categoryId, userId })
         transactionCount ==
           Cardinality({t \in DOMAIN transactions :
                          /\ transactions[t].categoryId = id
                          /\ transactions[t].userId = u})
     IN /\ categories' = IF status # 200 THEN categories
                         ELSE IF transactionCount > 0
                         THEN [categories EXCEPT ![id].isActive = FALSE]
                         ELSE Without(categories, id)
        /\ last' = Resp("deleteCategory", u, status)
  /\ UNCHANGED <<registered, accounts, transactions, nextAccountId, nextCategoryId,
                 nextTxnId, pc, rq, doc, writes,
                 budgets, nextBudgetId, uploads, nextFileId, up, health>>

----------------------------------------------------------------------------
(* Transactions *)

\* amounts of a request body: -5.00, 0, 0.005, 0.02
TxnAmounts == {-1000, 0, 1, 4}

\* createTransactionValidation / updateTransactionValidation:
\* body('amount').isFloat({ gt: 0 })
\* half a cent and two cents
PositiveAmounts == {1, 4}

\* a validation that checks the magnitude only, as the handler's own
\* Math.abs(Number(amount)) <= 0 test does
AmountValidAbs(amount) == Abs(amount) > 0

\* body('amount').isFloat({ gt: 0 })
AmountValid(amount) == amount > 0

\* the status createTransaction answers: the early returns of the handler,
\* in their order
createTransactionStatus(u, accountId, categoryId, amount, type) ==
  IF ~AmountValid(amount) THEN 400
  ELSE IF ~ActiveAccountOf(u, accountId) THEN 404
  ELSE IF ~ActiveCategoryOf(u, categoryId, type) THEN 404
  ELSE IF Abs(amount) <= 0 THEN 400
  ELSE 201

createTransaction(u, accountId, categoryId, amount, type) ==
  /\ u \in registered
  /\ LET status == createTransactionStatus(u, accountId, categoryId, amount, type)
         transactionAmount == Abs(amount)
     IN
     IF status # 201
     THEN /\ last' = Resp("createTransaction", u, status)
          /\ UNCHANGED <<accounts, transactions, nextTxnId>>
     ELSE \* the document stores the rounded amount; the balance is adjusted
          \* by the amount of the request and then rounded
          /\ nextTxnId <= MaxTxns
          /\ transactions' =
               With(transactions, nextTxnId,
                    TxnDoc(u, accountId, categoryId, Round2(transactionAmount), type))
          /\ nextTxnId' = nextTxnId + 1
          /\ accounts' =
               [accounts EXCEPT ![accountId].balance =
                  Round2(@ + Signed(type, transactionAmount))]
          /\ last' = [Resp("createTransaction", u, 201) EXCEPT
                        !.txn = nextTxnId, !.account = accountId,
                        !.before = accounts[accountId].balance]
  /\ UNCHANGED <<registered, categories, nextAccountId, nextCategoryId,
                 pc, rq, doc, writes,
                 budgets, nextBudgetId, uploads, nextFileId, up, health>>

deleteTransaction(u, id) ==
  /\ u \in registered
  /\ IF ~TxnOf(u, id)
     THEN /\ last' = Resp("deleteTransaction", u, 404)
          /\ UNCHANGED <<accounts, transactions>>
     ELSE LET transaction == transactions[id] IN
          \* Account.findById: no owner filter; a missing account is skipped
          /\ accounts' =
               IF transaction.accountId \in DOMAIN accounts
               THEN [accounts EXCEPT ![transaction.accountId].balance =
                       Round2(@ - Signed(transaction.type, transaction.amount))]
               ELSE accounts
          /\ transactions' = Without(transactions, id)
          /\ last' = IF last.op = "createTransaction" /\ last.status = 201 /\ last.txn = id
                     THEN [Resp("deleteTransaction", u, 200) EXCEPT
                             !.txn = id, !.account = last.account,
                             !.before = last.before, !.undone = TRUE]
                     ELSE [Resp("deleteTransaction", u, 200) EXCEPT !.txn = id]
  /\ UNCHANGED <<registered, categories, nextAccountId, nextCategoryId, nextTxnId,
                 pc, rq, doc, writes,
                 budgets, nextBudgetId, uploads, nextFileId, up, health>>

\* request bodies of updateTransaction: the keys present are the keys applied
TxnUpdates ==
  {[accountId |-> a] : a \in DOMAIN accounts \cup {MissingId}}
    \cup {[categoryId |-> c] : c \in DOMAIN categories \cup {MissingId}}
    \cup {[amount |-> m] : m \in TxnAmounts}
    \cup {[type |-> t] : t \in Types}
    \cup {[categoryId |-> c, type |-> t] : c \in DOMAIN categories, t \in Types}
    \cup {[accountId |-> a, amount |-> m] : a \in DOMAIN accounts, m \in PositiveAmounts}
    \cup {[userId |-> v] : v \in Users}

\* the bodies that only move the transaction to an account
TxnMoves == {[accountId |-> a] : a \in DOMAIN accounts}

\* Object.keys(updates).forEach: amount through Math.abs and the setter,
\* every other key assigned as it is
ApplyTxnUpdates(transaction, updates) ==
  [k \in DOMAIN transaction |->
     IF Has(updates, k)
     THEN IF k = "amount" THEN Round2(Abs(updates[k])) ELSE updates[k]
     ELSE transaction[k]]

updateTransactionStatus(u, id, updates) ==
  IF Has(updates, "amount") /\ ~AmountValid(updates.amount) THEN 400
  ELSE IF ~TxnOf(u, id) THEN 404
  ELSE IF /\ Has(updates, "accountId")
          /\ updates.accountId # transactions[id].accountId
          /\ ~ActiveAccountOf(u, updates.accountId)
  THEN 404
  ELSE IF /\ Has(updates, "categoryId")
          /\ ~ActiveCategoryOf(u, updates.categoryId,
                               IF Has(updates, "type") THEN updates.type
                               ELSE transactions[id].type)
  THEN 404
  ELSE IF transactions[id].accountId \notin DOMAIN accounts
  THEN 500  \* Account.findById gives null: the handler throws after the
            \* transaction was saved
  ELSE 200

updateTransaction(u, id, updates) ==
  /\ u \in registered
  /\ LET status == updateTransactionStatus(u, id, updates)
     IN
     IF status \in {400, 404}
     THEN /\ last' = Resp("updateTransaction", u, status)
          /\ UNCHANGED <<accounts, transactions>>
     ELSE
       LET existingTransaction == transactions[id]
           oldAmount == existingTransaction.amount
           oldType == existingTransaction.type
           oldAccountId == existingTransaction.accountId
           updated == ApplyTxnUpdates(existingTransaction, updates)
           newAccountId == updated.accountId
       IN
         /\ transactions' = [transactions EXCEPT ![id] = updated]
         /\ IF status = 500
            THEN /\ accounts' = accounts
                 /\ last' = [Resp("updateTransaction", u, 500) EXCEPT !.txn = id]
            ELSE
              /\ accounts' =
                   IF oldAccountId = newAccountId
                   THEN [accounts EXCEPT ![oldAccountId].balance =
                           Round2(Round2(@ - Signed(oldType, oldAmount))
                                    + Signed(updated.type, updated.amount))]
                   ELSE [accounts EXCEPT
                           ![oldAccountId].balance =
                             Round2(@ - Signed(oldType, oldAmount)),
                           ![newAccountId].balance =
                             Round2(@ + Signed(updated.type, updated.amount))]
              /\ last' = [Resp("updateTransaction", u, 200) EXCEPT
                            !.txn = id, !.account = oldAccountId,
                            !.before = accounts[oldAccountId].balance]
  /\ UNCHANGED <<registered, categories, nextAccountId, nextCategoryId, nextTxnId,
                 pc, rq, doc, writes,
                 budgets, nextBudgetId, uploads, nextFileId, up, health>>

----------------------------------------------------------------------------
(* Bulk import *)

\* values of a row's amount field: a number (in half cents), a text that is
\* not a number ("abc"), or nothing
Num(n) == [kind |-> "number", num |-> n]
Text == [kind |-> "text", num |-> 0]

\* !txn.amount
Falsy(amount) == amount.kind = "number" /\ amount.num = 0

NaN == [nan |-> TRUE, num |-> 0]
parseFloat(amount) ==
  IF amount.kind = "number" THEN [nan |-> FALSE, num |-> amount.num] ELSE NaN

\* String.prototype.trim on the descriptions of the model
trim(str) == IF str = "   " THEN "" ELSE str

\* new Date(str) is a valid date
ValidDate(str) == str \in {"2024-01-01", "2024-01-01T00:00:00.000Z"}

\* name.toLowerCase().includes(needle.toLowerCase()) on the names of the model
LowerIncludes(name, needle) ==
  <<name, needle>> \in {<<"Other Expenses", "other">>, <<"Other Income", "other">>,
                        <<"Other Expenses", "Other">>, <<"Other Income", "Other">>,
                        <<"Other Income", "income">>}

Row(amount, description, date) ==
  [amount |-> amount, description |-> description, date |-> date, category |-> ""]

BulkRows ==
  { Row(Num(20000), "Pay", "2024-01-01"),    \* 100.00, well formed
    Row(Num(-200), "", ""),                  \* -1, no description, no date
    Row(Num(-200), "Rent", "2024-01-01"),    \* -1.00, well formed
    Row(Num(1), "Pay", "2024-01-01"),        \* 0.005, well formed
    Row(Num(20000), "   ", "2024-01-01"),    \* whitespace-only description
    Row(Num(20000), "Pay", "garbage"),       \* unparseable date
    Row(Text, "Pay", "2024-01-01"),          \* non-numeric amount
    Row(Num(0), "Pay", "2024-01-01") }       \* zero amount

Batches == UNION {[1..n -> BulkRows] : n \in 0..MaxBatch}

\* Account.find({ userId, isActive: true }) / Category.find({ userId, isActive: true })
userAccounts(u) == {a \in DOMAIN accounts : accounts[a].userId = u /\ accounts[a].isActive}
userCategories(u) ==
  {c \in DOMAIN categories : categories[c].userId = u /\ categories[c].isActive}

\* the type of a row: parseFloat(txn.amount) >= 0 ? 'income' : 'expense'
RowType(row) == IF parseFloat(row.amount).num >= 0 THEN "income" ELSE "expense"

\* userCategories.find(name includes (txn.category || 'other') && type), or
\* else userCategories.find(type); the empty set when there is none
RowCategory(u, row) ==
  LET type == RowType(row)
      needle == IF row.category = "" THEN "other" ELSE row.category
      byName == {c \in userCategories(u) :
                   LowerIncludes(categories[c].name, needle) /\ categories[c].type = type}
      byType == {c \in userCategories(u) : categories[c].type = type}
  IN IF byName # {} THEN {MinOf(byName)}
     ELSE IF byType # {} THEN {MinOf(byType)}
     ELSE {}

\* the error pushed for a row, "" when the row goes to validTransactions
RowError(u, row) ==
  IF Falsy(row.amount) \/ row.description = "" \/ row.date = ""
  THEN "Missing required fields"
  ELSE IF parseFloat(row.amount).nan \/ Abs(parseFloat(row.amount).num) <= 0
  THEN "Invalid amount"
  ELSE IF RowCategory(u, row) = {}
  THEN "No category found"
  ELSE ""

RECURSIVE errorsFrom(_, _, _)
errorsFrom(u, batch, i) ==
  IF i > Len(batch) THEN <<>>
  ELSE IF RowError(u, batch[i]) # ""
  THEN <<[row |-> i, error |-> RowError(u, batch[i])]>> \o errorsFrom(u, batch, i + 1)
  ELSE errorsFrom(u, batch, i + 1)

\* validTransactions: description trimmed, date parsed, all on userAccounts[0];
\* amount is not yet rounded (the setter runs when the document is built)
RECURSIVE validTransactionsFrom(_, _, _)
validTransactionsFrom(u, batch, i) ==
  IF i > Len(batch) THEN <<>>
  ELSE IF RowError(u, batch[i]) = ""
  THEN << [row |-> i,
           accountId |-> MinOf(userAccounts(u)),
           categoryId |-> MinOf(RowCategory(u, batch[i])),
           amount |-> Abs(parseFloat(batch[i].amount).num),
           description |-> trim(batch[i].description),
           dateValid |-> ValidDate(batch[i].date),
           type |-> RowType(batch[i])] >> \o validTransactionsFrom(u, batch, i + 1)
  ELSE validTransactionsFrom(u, batch, i + 1)

\* transactionSchema validation of one document of insertMany:
\* description required (not empty), date castable, amount >= 0
SchemaValid(d) == d.description # "" /\ d.dateValid /\ d.amount >= 0

\* accountUpdates: the signed sum of the batch, not rounded
BatchDelta(valid) ==
  SumOver([i \in 1..Len(valid) |-> Signed(valid[i].type, valid[i].amount)],
          1..Len(valid))

bulkImportTransactions(u, batch) ==
  /\ u \in registered
  /\ LET valid == validTransactionsFrom(u, batch, 1)
         errors == errorsFrom(u, batch, 1)
     IN
     IF Len(batch) = 0
     THEN /\ last' = Resp("bulkImport", u, 400)
          /\ UNCHANGED <<accounts, transactions, nextTxnId>>
     ELSE IF userAccounts(u) = {}
     THEN /\ last' = [Resp("bulkImport", u, 400) EXCEPT !.batch = batch]
          /\ UNCHANGED <<accounts, transactions, nextTxnId>>
     ELSE IF \E i \in 1..Len(valid) : ~SchemaValid(valid[i])
     THEN \* insertMany validates every document first and throws: nothing
          \* is inserted and the handler answers 500
          /\ last' = [Resp("bulkImport", u, 500) EXCEPT
                       !.batch = batch, !.account = MinOf(userAccounts(u)),
                       !.before = accounts[MinOf(userAccounts(u))].balance]
          /\ UNCHANGED <<accounts, transactions, nextTxnId>>
     ELSE
       /\ Len(valid) > 0 => nextTxnId <= MaxTxns
       /\ transactions' =
            [t \in DOMAIN transactions \cup (nextTxnId .. nextTxnId + Len(valid) - 1) |->
               IF t \in DOMAIN transactions THEN transactions[t]
               ELSE LET d == valid[t - nextTxnId + 1]
                    IN TxnDoc(u, d.accountId, d.categoryId, Round2(d.amount), d.type)]
       /\ nextTxnId' = nextTxnId + Len(valid)
       \* findByIdAndUpdate({ $inc: { balance } }): no setter, no rounding
       /\ accounts' =
            IF Len(valid) > 0
            THEN [accounts EXCEPT ![MinOf(userAccounts(u))].balance = @ + BatchDelta(valid)]
            ELSE accounts
       /\ last' = [Resp("bulkImport", u, 200) EXCEPT
                     !.batch = batch,
                     !.account = MinOf(userAccounts(u)),
                     !.before = accounts[MinOf(userAccounts(u))].balance,
                     !.imported = Len(valid), !.errors = Len(errors),
                     !.total = Len(batch), !.details = errors]
  /\ UNCHANGED <<registered, categories, nextAccountId, nextCategoryId,
                 pc, rq, doc, writes,
                 budgets, nextBudgetId, uploads, nextFileId, up, health>>

----------------------------------------------------------------------------
(* Sequential execution: one request at a time *)

Next ==
  \/ \E u \in Users : register(u)
  \/ \E u \in Users, a \in DOMAIN accounts, c \in DOMAIN categories,
        amount \in PositiveAmounts, type \in Types :
       createTransaction(u, a, c, amount, type)
  \/ \E u \in Users, t \in DOMAIN transactions \cup {MissingId}, updates \in TxnUpdates :
       updateTransaction(u, t, updates)
  \/ \E u \in Users, t \in DOMAIN transactions \cup {MissingId} : deleteTransaction(u, t)

Spec == Init /\ [][Next]_vars

\* what a createTransaction request can meet: accounts and categories that
\* are missing, of another owner, inactive or of the other type
NextCreate ==
  \/ \E u \in Users : register(u)
  \/ \E a \in DOMAIN accounts, updates \in ActiveFlags : updateAccount("u1", a, updates)
  \/ \E name \in CategoryNames, type \in Types :
       createCategory("u1", name, type, MissingId)
  \/ \E c \in DOMAIN categories, updates \in CategoryTypeOrFlag :
       updateCategory("u1", c, updates)
  \/ \E a \in DOMAIN accounts \cup {MissingId}, c \in DOMAIN categories \cup {MissingId},
        amount \in TxnAmounts, type \in Types :
       createTransaction("u1", a, c, amount, type)

SpecCreate == Init /\ [][NextCreate]_vars

\* the bulk-import path: registration, bulk import, and moving or deleting
\* what was imported
NextBulk ==
  \/ \E u \in Users : register(u)
  \/ \E batch \in Batches : bulkImportTransactions("u1", batch)
  \/ \E t \in DOMAIN transactions, updates \in TxnMoves :
       updateTransaction("u1", t, updates)
  \/ \E t \in DOMAIN transactions : deleteTransaction("u1", t)

SpecBulk == Init /\ [][NextBulk]_vars

----------------------------------------------------------------------------
(* createTransaction as the event loop runs it: every await of the handler
   is a point where another request can run.  Each process handles one
   validated request. *)

RaceRequests ==
  {[user |-> "u1", accountId |-> a, categoryId |-> c, amount |-> m, type |-> t,
    txn |-> 0] :
     a \in userAccounts("u1"), c \in userCategories("u1"),
     m \in PositiveAmounts, t \in Types}

\* the saves of account a that have completed
WritesTo(a) == {i \in DOMAIN writes : writes[i].account = a}

receive(p, request) ==
  /\ pc[p] = "idle"
  /\ request.user \in registered
  /\ AmountValid(request.amount)
  /\ pc' = [pc EXCEPT ![p] = "findAccount"]
  /\ rq' = [rq EXCEPT ![p] = request]
  /\ UNCHANGED <<registered, accounts, categories, transactions, nextAccountId,
                 nextCategoryId, nextTxnId, last, doc, writes,
                 budgets, nextBudgetId, uploads, nextFileId, up, health>>

\* await Account.findOne: the handler now holds a copy of the document
findAccount(p) ==
  /\ pc[p] = "findAccount"
  /\ IF ActiveAccountOf(rq[p].user, rq[p].accountId)
     THEN /\ doc' = [doc EXCEPT ![p] =
                       [balance |-> accounts[rq[p].accountId].balance,
                        seen |-> Cardinality(WritesTo(rq[p].accountId))]]
          /\ pc' = [pc EXCEPT ![p] = "findCategory"]
     ELSE /\ pc' = [pc EXCEPT ![p] = "rejected"]
          /\ doc' = doc
  /\ UNCHANGED <<registered, accounts, categories, transactions, nextAccountId,
                 nextCategoryId, nextTxnId, last, rq, writes,
                 budgets, nextBudgetId, uploads, nextFileId, up, health>>

\* await Category.findOne
findCategory(p) ==
  /\ pc[p] = "findCategory"
  /\ pc' = [pc EXCEPT ![p] =
              IF ActiveCategoryOf(rq[p].user, rq[p].categoryId, rq[p].type)
              THEN "saveTransaction" ELSE "rejected"]
  /\ UNCHANGED <<registered, accounts, categories, transactions, nextAccountId,
                 nextCategoryId, nextTxnId, last, rq, doc, writes,
                 budgets, nextBudgetId, uploads, nextFileId, up, health>>

\* await transaction.save()
saveTransaction(p) ==
  /\ pc[p] = "saveTransaction"
  /\ transactions' =
       With(transactions, nextTxnId,
            TxnDoc(rq[p].user, rq[p].accountId, rq[p].categoryId,
                   Round2(Abs(rq[p].amount)), rq[p].type))
  /\ nextTxnId' = nextTxnId + 1
  /\ rq' = [rq EXCEPT ![p].txn = nextTxnId]
  /\ pc' = [pc EXCEPT ![p] = "saveAccount"]
  /\ UNCHANGED <<registered, accounts, categories, nextAccountId, nextCategoryId,
                 last, doc, writes,
                 budgets, nextBudgetId, uploads, nextFileId, up, health>>

\* the balance a single atomic increment of the stored document would leave
SavedBalanceAtomic(p) ==
  Round2(accounts[rq[p].accountId].balance + Signed(rq[p].type, Abs(rq[p].amount)))

\* account.balance += / -= transactionAmount, on the copy the handler holds
SavedBalance(p) ==
  Round2(doc[p].balance + Signed(rq[p].type, Abs(rq[p].amount)))

\* await account.save(): writes the balance of the copy
saveAccount(p) ==
  /\ pc[p] = "saveAccount"
  /\ accounts' = [accounts EXCEPT ![rq[p].accountId].balance = SavedBalance(p)]
  /\ writes' = Append(writes, [proc |-> p, account |-> rq[p].accountId])
  /\ pc' = [pc EXCEPT ![p] = "done"]
  /\ UNCHANGED <<registered, categories, transactions, nextAccountId,
                 nextCategoryId, nextTxnId, last, rq, doc,
                 budgets, nextBudgetId, uploads, nextFileId, up, health>>

NextRace ==
  \/ register("u1")
  \/ \E p \in Procs, request \in RaceRequests : receive(p, request)
  \/ \E p \in Procs : findAccount(p)
  \/ \E p \in Procs : findCategory(p)
  \/ \E p \in Procs : saveTransaction(p)
  \/ \E p \in Procs : saveAccount(p)

SpecRace == Init /\ [][NextRace]_vars

----------------------------------------------------------------------------
(* The account handlers, with transactions to link to the accounts *)

NextAccounts ==
  \/ \E u \in Users : register(u)
  \/ createAccount("u1", "Main Checking", 0)
  \/ \E a \in DOMAIN accounts \cup {MissingId}, updates \in ActiveFlags :
       updateAccount("u1", a, updates)
  \/ \E a \in DOMAIN accounts \cup {MissingId} : deleteAccount("u1", a)
  \/ \E a \in DOMAIN accounts, c \in DOMAIN categories :
       createTransaction("u1", a, c, 4, "expense")
  \/ \E t \in DOMAIN transactions : updateTransaction("u1", t, [userId |-> "u2"])

SpecAccounts == Init /\ [][NextAccounts]_vars

\* the balances of an account: opening balance, balance and initialBalance
\* in the body of an update, and a transaction on the account
BalanceEdits == {[balance |-> 3], [initialBalance |-> 2]}

NextBalances ==
  \/ \E u \in Users : register(u)
  \/ \E balance \in OpeningBalances : createAccount("u1", "Cash", balance)
  \/ \E a \in DOMAIN accounts, updates \in BalanceEdits : updateAccount("u1", a, updates)
  \/ \E a \in DOMAIN accounts, c \in DOMAIN categories, type \in Types :
       createTransaction("u1", a, c, 4, type)

SpecBalances == Init /\ [][NextBalances]_vars

----------------------------------------------------------------------------
(* Budgets.  The requests of the model pass the route validation: categoryId
   is a well-formed id, amount is positive, startDate and endDate are ISO 8601
   strings. *)

MaxBudgets == 2       \* Budget documents ever created

\* a budget document: owner, category, amount, closed date range, alert
\* threshold in percent, active flag
BudgetDoc(u, categoryId, amount, startDate, endDate) ==
  [userId |-> u, categoryId |-> categoryId, amount |-> amount,
   startDate |-> startDate, endDate |-> endDate, alertThreshold |-> 80,
   isActive |-> TRUE]

\* strings that isISO8601() accepts; the last is a week date
DateStrings == {"2024-01-01", "2024-02-01", "2024-03-01", "2024-04-01", "2024-W05"}

InvalidDate == -1

\* new Date(str): the day of the year 2024, or Invalid Date for a string the
\* Date constructor does not parse
newDate(str) ==
  CASE str = "2024-01-01" -> 1
    [] str = "2024-02-01" -> 32
    [] str = "2024-03-01" -> 61
    [] str = "2024-04-01" -> 92
    [] OTHER -> InvalidDate

\* a >= b on Date objects: false when either is Invalid Date
DateGeq(a, b) == a # InvalidDate /\ b # InvalidDate /\ a >= b

\* a > b on Date objects: a range check that lets equal dates through
EndBeforeStart(startDate, endDate) ==
  startDate # InvalidDate /\ endDate # InvalidDate /\ startDate > endDate

\* new Date(startDate) >= new Date(endDate)
EndNotAfterStart(startDate, endDate) == DateGeq(startDate, endDate)

\* Budget.findOne({ userId, categoryId, isActive: true,
\*                  startDate: { $lte: end }, endDate: { $gte: start } })
overlappingBudget(u, categoryId, startDate, endDate) ==
  \E b \in DOMAIN budgets :
    /\ budgets[b].userId = u
    /\ budgets[b].categoryId = categoryId
    /\ budgets[b].isActive
    /\ budgets[b].startDate <= endDate
    /\ budgets[b].endDate >= startDate

BudgetAmount == 20000

\* the response to a budget request and the budget it was about
BudgetResp(op, u, status, budget) ==
  Resp(op, u, status) @@ [budget |-> budget]

createBudgetStatus(u, categoryId, startDate, endDate) ==
  IF ~ActiveCategoryOf(u, categoryId, "expense") THEN 404
  ELSE IF newDate(startDate) = InvalidDate \/ newDate(endDate) = InvalidDate
  THEN 500  \* the overlap query cannot cast Invalid Date
  ELSE IF overlappingBudget(u, categoryId, newDate(startDate), newDate(endDate))
  THEN 400
  ELSE IF EndNotAfterStart(newDate(startDate), newDate(endDate)) THEN 400
  ELSE 201

createBudget(u, categoryId, startDate, endDate) ==
  /\ u \in registered
  /\ LET status == createBudgetStatus(u, categoryId, startDate, endDate)
     IN IF status = 201
        THEN /\ nextBudgetId <= MaxBudgets
             /\ budgets' = With(budgets, nextBudgetId,
                                BudgetDoc(u, categoryId, BudgetAmount,
                                          newDate(startDate), newDate(endDate)))
             /\ nextBudgetId' = nextBudgetId + 1
             /\ last' = BudgetResp("createBudget", u, 201, nextBudgetId)
        ELSE /\ last' = BudgetResp("createBudget", u, status, MissingId)
             /\ UNCHANGED <<budgets, nextBudgetId, uploads, nextFileId, up, health>>
  /\ UNCHANGED <<registered, accounts, categories, transactions, nextAccountId,
                 nextCategoryId, nextTxnId, pc, rq, doc, writes,
                 uploads, nextFileId, up, health>>

\* request bodies of updateBudget: the keys present are the keys applied
BudgetUpdates ==
  {[startDate |-> d] : d \in DateStrings}
    \cup {[endDate |-> d] : d \in DateStrings}
    \cup {[categoryId |-> c] : c \in DOMAIN categories \cup {MissingId}}
    \cup {[isActive |-> b] : b \in BOOLEAN}
    \cup {[userId |-> v] : v \in Users}

\* updates.startDate ? new Date(updates.startDate) : budget.startDate
newStartDate(budget, updates) ==
  IF Has(updates, "startDate") THEN newDate(updates.startDate) ELSE budget.startDate

newEndDate(budget, updates) ==
  IF Has(updates, "endDate") THEN newDate(updates.endDate) ELSE budget.endDate

\* Object.keys(updates).forEach: dates through new Date, every other key of
\* the model assigned as it is
ApplyBudgetUpdates(budget, updates) ==
  [k \in DOMAIN budget |->
     IF ~Has(updates, k) THEN budget[k]
     ELSE IF k \in {"startDate", "endDate"} THEN newDate(updates[k])
     ELSE updates[k]]

updateBudgetStatus(u, id, updates) ==
  IF ~(id \in DOMAIN budgets /\ budgets[id].userId = u) THEN 404
  ELSE IF /\ Has(updates, "categoryId")
          /\ updates.categoryId # budgets[id].categoryId
          /\ ~ActiveCategoryOf(u, updates.categoryId, "expense")
  THEN 404
  ELSE IF EndNotAfterStart(newStartDate(budgets[id], updates),
                           newEndDate(budgets[id], updates))
  THEN 400
  ELSE IF \/ newStartDate(budgets[id], updates) = InvalidDate
          \/ newEndDate(budgets[id], updates) = InvalidDate
  THEN 500  \* save() cannot cast Invalid Date: nothing is stored
  ELSE 200

updateBudget(u, id, updates) ==
  /\ u \in registered
  /\ LET status == updateBudgetStatus(u, id, updates)
     IN /\ budgets' = IF status = 200
                      THEN [budgets EXCEPT ![id] = ApplyBudgetUpdates(budgets[id], updates)]
                      ELSE budgets
        /\ last' = BudgetResp("updateBudget", u, status, id)
  /\ UNCHANGED <<registered, accounts, categories, transactions, nextAccountId,
                 nextCategoryId, nextTxnId, pc, rq, doc, writes, nextBudgetId,
                 uploads, nextFileId, up, health>>

deleteBudget(u, id) ==
  /\ u \in registered
  /\ IF ~(id \in DOMAIN budgets /\ budgets[id].userId = u)
     THEN /\ last' = BudgetResp("deleteBudget", u, 404, id)
          /\ UNCHANGED budgets
     ELSE /\ budgets' = Without(budgets, id)
          /\ last' = BudgetResp("deleteBudget", u, 200, id)
  /\ UNCHANGED <<registered, accounts, categories, transactions, nextAccountId,
                 nextCategoryId, nextTxnId, pc, rq, doc, writes, nextBudgetId,
                 uploads, nextFileId, up, health>>

\* the bodies that change a date, the category or the active flag
BudgetDatesOrFlag ==
  {[startDate |-> d] : d \in DateStrings}
    \cup {[endDate |-> d] : d \in DateStrings}
    \cup {[categoryId |-> c] : c \in DOMAIN categories}
    \cup {[isActive |-> b] : b \in BOOLEAN}

\* budget requests of one user
NextBudgets ==
  \/ register("u1")
  \/ \E c \in DOMAIN categories \cup {MissingId}, startDate \in DateStrings,
        endDate \in DateStrings :
       createBudget("u1", c, startDate, endDate)
  \/ \E b \in DOMAIN budgets \cup {MissingId}, updates \in BudgetDatesOrFlag :
       updateBudget("u1", b, updates)
  \/ \E b \in DOMAIN budgets \cup {MissingId} : deleteBudget("u1", b)

SpecBudgets == Init /\ [][NextBudgets]_vars

\* the bodies of updateCategory that change the type
CategoryTypes == {[type |-> t] : t \in Types}

\* the bodies of updateBudget that change the category or the owner
BudgetMoves ==
  {[categoryId |-> c] : c \in DOMAIN categories \cup {MissingId}}
    \cup {[userId |-> v] : v \in Users}

\* budget requests and category requests of one user
NextBudgetCategories ==
  \/ register("u1")
  \/ createCategory("u1", "Gifts", "expense", MissingId)
  \/ \E c \in DOMAIN categories, updates \in CategoryTypes :
       updateCategory("u1", c, updates)
  \/ \E c \in DOMAIN categories \cup {MissingId} :
       createBudget("u1", c, "2024-01-01", "2024-02-01")
  \/ \E b \in DOMAIN budgets \cup {MissingId}, updates \in BudgetMoves :
       updateBudget("u1", b, updates)

SpecBudgetCategories == Init /\ [][NextBudgetCategories]_vars

\* the bodies of updateCategory that rename, retype or clear the default flag
CategoryEdits ==
  {[name |-> "Gifts"], [type |-> "income"], [isDefault |-> FALSE]}

\* category requests of one user, with a transaction on one of the categories
NextCategories ==
  \/ register("u1")
  \/ \E c \in DOMAIN categories :
       createTransaction("u1", 1, c, 4, categories[c].type)
  \/ \E c \in DOMAIN categories \cup {MissingId}, updates \in CategoryEdits :
       updateCategory("u1", c, updates)
  \/ \E c \in DOMAIN categories \cup {MissingId} : deleteCategory("u1", c)

SpecCategories == Init /\ [][NextCategories]_vars

\* the bodies of updateCategory that set the default flag or the active flag
CategoryFlags ==
  {[isActive |-> b] : b \in BOOLEAN} \cup {[isDefault |-> b] : b \in BOOLEAN}

\* requests of one user that set the flags of categories or delete them, with
\* a transaction on one of the categories
NextCategoryFlags ==
  \/ register("u1")
  \/ createCategory("u1", "Gifts", "expense", MissingId)
  \/ \E c \in DOMAIN categories :
       createTransaction("u1", 1, c, 4, categories[c].type)
  \/ \E c \in DOMAIN categories, updates \in CategoryFlags :
       updateCategory("u1", c, updates)
  \/ \E c \in DOMAIN categories : deleteCategory("u1", c)

SpecCategoryFlags == Init /\ [][NextCategoryFlags]_vars

\* the bodies of updateCategory that name a parent or clear the default flag
CategoryParents ==
  {[parentCategory |-> c] : c \in DOMAIN categories} \cup {[isDefault |-> FALSE]}

\* requests of one user that set the parent of categories or delete them
NextCategoryParents ==
  \/ register("u1")
  \/ \E c \in DOMAIN categories, updates \in CategoryParents :
       updateCategory("u1", c, updates)
  \/ \E c \in DOMAIN categories : deleteCategory("u1", c)

SpecCategoryParents == Init /\ [][NextCategoryParents]_vars

\* the bodies of updateCategory that rename, deactivate or clear the default
\* flag
CategoryRenames ==
  {[name |-> n] : n \in CategoryNames} \cup {[isDefault |-> FALSE], [isActive |-> FALSE]}

\* category creation by two users, and renaming by one of them
NextCategoryNames ==
  \/ \E u \in Users : register(u)
  \/ \E u \in Users, name \in CategoryNames, type \in Types :
       createCategory(u, name, type, MissingId)
  \/ \E c \in DOMAIN categories, updates \in CategoryRenames :
       updateCategory("u1", c, updates)

SpecCategoryNames == Init /\ [][NextCategoryNames]_vars

----------------------------------------------------------------------------
(* File upload: multer stores an accepted file in the upload directory, the
   handler parses it and answers; one step per await of the handler *)

MaxUploads == 3       \* temporary files ever stored

\* extensions of uploaded files
Extensions == {".csv", ".xlsx", ".xls", ".txt"}

\* what parseCsvFile and mapCsvToTransactions make of a file: some
\* transactions, none, or a stream error
FileContents == {"rows", "empty", "unreadable"}

\* allowedTypes.includes(ext)
fileFilter(ext) == ext \in {".csv", ".xlsx", ".xls"}

\* upload.single('file'): an accepted file is written to the upload directory
\* and the handler is called; a refused file is not written and the handler
\* is not called
receiveFile(p, ext, content) ==
  /\ up[p].pc = "idle"
  /\ IF fileFilter(ext)
     THEN /\ nextFileId <= MaxUploads
          /\ uploads' = uploads \cup {nextFileId}
          /\ nextFileId' = nextFileId + 1
          /\ up' = [up EXCEPT ![p] = [pc |-> "parse", file |-> nextFileId, ext |-> ext,
                                      content |-> content, status |-> 0]]
     ELSE /\ up' = [up EXCEPT ![p] = [pc |-> "done", file |-> 0, ext |-> ext,
                                      content |-> content, status |-> 500]]
          /\ UNCHANGED <<uploads, nextFileId>>
  /\ UNCHANGED <<registered, accounts, categories, transactions, nextAccountId,
                 nextCategoryId, nextTxnId, last, pc, rq, doc, writes,
                 budgets, nextBudgetId, health>>

\* the branch on the extension: await parseCsvFile(filePath) for a .csv file,
\* the 400 response for any other accepted file
parseFile(p) ==
  /\ up[p].pc = "parse"
  /\ up' = [up EXCEPT ![p] =
              IF up[p].ext # ".csv" THEN [@ EXCEPT !.pc = "done", !.status = 400]
              ELSE IF up[p].content = "unreadable" THEN [@ EXCEPT !.pc = "catch"]
              ELSE [@ EXCEPT !.pc = "unlink"]]
  /\ UNCHANGED <<registered, accounts, categories, transactions, nextAccountId,
                 nextCategoryId, nextTxnId, last, pc, rq, doc, writes,
                 budgets, nextBudgetId, uploads, nextFileId, health>>

\* await unlinkAsync(filePath) after parsing, then the response
unlinkParsed(p) ==
  /\ up[p].pc = "unlink"
  /\ uploads' = uploads \ {up[p].file}
  /\ up' = [up EXCEPT ![p].pc = "done",
                      ![p].status = IF up[p].content = "empty" THEN 400 ELSE 200]
  /\ UNCHANGED <<registered, accounts, categories, transactions, nextAccountId,
                 nextCategoryId, nextTxnId, last, pc, rq, doc, writes,
                 budgets, nextBudgetId, nextFileId, health>>

\* catch (parseError): await unlinkAsync(filePath), rethrow, respond 500
unlinkFailed(p) ==
  /\ up[p].pc = "catch"
  /\ uploads' = uploads \ {up[p].file}
  /\ up' = [up EXCEPT ![p].pc = "done", ![p].status = 500]
  /\ UNCHANGED <<registered, accounts, categories, transactions, nextAccountId,
                 nextCategoryId, nextTxnId, last, pc, rq, doc, writes,
                 budgets, nextBudgetId, nextFileId, health>>

\* the response is sent: the handler is free for the next request
completeUpload(p) ==
  /\ up[p].pc = "done"
  /\ up' = [up EXCEPT ![p] = NoUpload]
  /\ UNCHANGED <<registered, accounts, categories, transactions, nextAccountId,
                 nextCategoryId, nextTxnId, last, pc, rq, doc, writes,
                 budgets, nextBudgetId, uploads, nextFileId, health>>

NextUpload ==
  \/ \E p \in Procs, ext \in Extensions, content \in FileContents :
       receiveFile(p, ext, content)
  \/ \E p \in Procs : parseFile(p)
  \/ \E p \in Procs : unlinkParsed(p)
  \/ \E p \in Procs : unlinkFailed(p)
  \/ \E p \in Procs : completeUpload(p)

SpecUpload == Init /\ [][NextUpload]_vars

----------------------------------------------------------------------------
(* Financial health.  The handler is a function of what its queries return:
   last month's income and expenses, the active accounts and, for each
   current active budget, its amount and the spending in its window.  Amounts
   of this section are in hundreds of the currency; every quantity of the
   handler is a ratio of amounts.  Numbers are exact fractions n/d, d > 0. *)

MaxHealthAccounts == 2   \* active accounts of the user
MaxHealthBudgets == 2    \* current active budgets of the user

RECURSIVE GCD(_, _)
GCD(a, b) == IF b = 0 THEN a ELSE GCD(b, a % b)

\* the fraction n/d in lowest terms
Frac(n, d) ==
  LET g == GCD(Abs(n), d) IN [n |-> n \div g, d |-> d \div g]

FracAdd(x, y) == Frac(x.n * y.d + y.n * x.d, x.d * y.d)
FracTimes(x, k) == Frac(x.n * k, x.d)
FracOver(x, k) == Frac(x.n, x.d * k)
FracLess(x, y) == x.n * y.d < y.n * x.d

\* Math.max(a, b), Math.min(a, b)
MathMax(x, y) == IF FracLess(x, y) THEN y ELSE x
MathMin(x, y) == IF FracLess(y, x) THEN y ELSE x

\* Math.round(x): the integer nearest to x, ties toward +infinity
MathRound(x) == (2 * x.n + x.d) \div (2 * x.d)

\* income > 0 ? ((income - expenses) / income) * 100 : 0
savingsRate(income, expenses) ==
  IF income > 0 THEN Frac((income - expenses) * 100, income) ELSE Frac(0, 1)

\* income > 0 ? (expenses / income) * 100 : 100
expenseRatio(income, expenses) ==
  IF income > 0 THEN Frac(expenses * 100, income) ELSE Frac(100, 1)

\* accounts.reduce((sum, acc) => sum + acc.balance, 0)
RECURSIVE totalBalance(_)
totalBalance(accs) ==
  IF accs = <<>> THEN 0 ELSE accs[1].balance + totalBalance(Tail(accs))

\* monthlyExpenses > 0 ? totalBalance / (monthlyExpenses * 3) : 1
emergencyFundRatio(accs, expenses) ==
  IF expenses > 0 THEN Frac(totalBalance(accs), expenses * 3) ELSE Frac(1, 1)

\* the sum over the budgets of Math.abs(spent - budget.amount) / budget.amount
RECURSIVE totalBudgetVariance(_)
totalBudgetVariance(bs) ==
  IF bs = <<>> THEN Frac(0, 1)
  ELSE FracAdd(Frac(Abs(bs[1].spent - bs[1].amount), bs[1].amount),
               totalBudgetVariance(Tail(bs)))

\* 100, or Math.max(0, 100 - (totalBudgetVariance / budgets.length) * 100)
budgetScore(bs) ==
  IF Len(bs) > 0
  THEN MathMax(Frac(0, 1),
               FracAdd(Frac(100, 1),
                       FracTimes(FracOver(totalBudgetVariance(bs), Len(bs)), -100)))
  ELSE Frac(100, 1)

\* the sum of Math.abs(acc.balance) over the accounts of type 'credit'
RECURSIVE totalDebt(_)
totalDebt(accs) ==
  IF accs = <<>> THEN 0
  ELSE (IF accs[1].type = "credit" THEN Abs(accs[1].balance) ELSE 0)
         + totalDebt(Tail(accs))

\* income > 0 ? (totalDebt / income) * 100 : 0
debtToIncomeRatio(accs, income) ==
  IF income > 0 THEN Frac(totalDebt(accs) * 100, income) ELSE Frac(0, 1)

\* the five sub-scores
scores(income, expenses, accs, bs) ==
  [savingsRate |->
     MathMin(Frac(100, 1), MathMax(Frac(0, 1), FracTimes(savingsRate(income, expenses), 5))),
   budgetAdherence |-> Frac(MathRound(budgetScore(bs)), 1),
   emergencyFund |->
     MathMin(Frac(100, 1), FracTimes(emergencyFundRatio(accs, expenses), 100)),
   expenseControl |->
     MathMax(Frac(0, 1),
             FracAdd(Frac(100, 1), FracTimes(expenseRatio(income, expenses), -1))),
   debtManagement |->
     MathMax(Frac(0, 1),
             FracAdd(Frac(100, 1), FracTimes(debtToIncomeRatio(accs, income), -2)))]

\* the five sub-scores with equal weights
plainAverage(sc) ==
  FracOver(FracAdd(sc.savingsRate,
             FracAdd(sc.budgetAdherence,
               FracAdd(sc.emergencyFund,
                 FracAdd(sc.expenseControl, sc.debtManagement)))), 5)

\* savingsRate * 0.25 + budgetAdherence * 0.25 + emergencyFund * 0.2
\*   + expenseControl * 0.15 + debtManagement * 0.15
overallScore(sc) ==
  FracAdd(FracOver(FracTimes(sc.savingsRate, 25), 100),
    FracAdd(FracOver(FracTimes(sc.budgetAdherence, 25), 100),
      FracAdd(FracOver(FracTimes(sc.emergencyFund, 20), 100),
        FracAdd(FracOver(FracTimes(sc.expenseControl, 15), 100),
                FracOver(FracTimes(sc.debtManagement, 15), 100)))))

\* what the queries of the handler can return
HealthIncomes == {0, 10, 20}
HealthExpenses == {0, 16, 30}
HealthAccounts ==
  [type : {"checking", "credit"}, balance : {-48, 0, 48}]
HealthBudgets == [amount : {1, 4}, spent : {0, 1, 10}]

HealthInputs ==
  [income : HealthIncomes,
   expenses : HealthExpenses,
   accounts : UNION {[1..n -> HealthAccounts] : n \in 0..MaxHealthAccounts},
   budgets : UNION {[1..n -> HealthBudgets] : n \in 0..MaxHealthBudgets}]

\* GET /analytics/financial-health
getFinancialHealth(in) ==
  /\ ~health.asked
  /\ LET sc == scores(in.income, in.expenses, in.accounts, in.budgets)
     IN health' = [asked |-> TRUE, in |-> in, scores |-> sc,
                   overallScore |-> MathRound(overallScore(sc))]
  /\ UNCHANGED <<registered, accounts, categories, transactions, nextAccountId,
                 nextCategoryId, nextTxnId, last, pc, rq, doc, writes,
                 budgets, nextBudgetId, uploads, nextFileId, up>>

NextHealth == \E in \in HealthInputs : getFinancialHealth(in)

SpecHealth == Init /\ [][NextHealth]_vars

----------------------------------------------------------------------------
(* The provisional list of the upload endpoint, submitted to bulk import *)

\* a parsed CSV row: the columns amount, description, date and type, the
\* column category being absent
Csv(amount, type) ==
  [amount |-> amount, description |-> "Pay", date |-> "2024-01-01", type |-> type]

CsvRows ==
  { Csv(Num(-17100), ""),          \* -85.50
    Csv(Num(600000), ""),          \* 3000.00
    Csv(Num(0), ""),               \* 0
    Csv(Num(-17100), "income"),    \* -85.50 with a type column
    Csv(Num(-17100), "expense") }

CsvFiles == UNION {[1..n -> CsvRows] : n \in 1..MaxBatch}

\* new Date(date) as the JSON response carries it
toISOString(date) ==
  IF date = "2024-01-01" THEN "2024-01-01T00:00:00.000Z" ELSE ""

\* amount > 0 || row.type === 'income' || row.transaction_type === 'credit'
transactionType(row) ==
  IF parseFloat(row.amount).num > 0 \/ row.type = "income" THEN "income" ELSE "expense"

\* one element of mapCsvToTransactions: the amount through parseFloat and
\* Math.abs, category = row.category || row.type || 'Other'
mapCsvRow(row) ==
  [amount |-> Num(Abs(parseFloat(row.amount).num)),
   description |-> trim(row.description),
   date |-> toISOString(row.date),
   category |-> IF row.type # "" THEN row.type ELSE "Other",
   type |-> transactionType(row)]

mapCsvToTransactions(csvData) == [i \in DOMAIN csvData |-> mapCsvRow(csvData[i])]

\* POST /upload/bulk-import with the list that POST /upload/transactions
\* returned for the file
submitParsed(u, csvData) == bulkImportTransactions(u, mapCsvToTransactions(csvData))

NextCsv ==
  \/ \E u \in Users : register(u)
  \/ \E u \in Users, csvData \in CsvFiles : submitParsed(u, csvData)

SpecCsv == Init /\ [][NextCsv]_vars

\* transaction updates of one user among active and inactive accounts and
\* categories of two users
NextUpdate ==
  \/ \E u \in Users : register(u)
  \/ createCategory("u1", "Gifts", "expense", MissingId)
  \/ \E a \in DOMAIN accounts, updates \in ActiveFlags : updateAccount("u1", a, updates)
  \/ \E c \in DOMAIN categories, updates \in ActiveFlags :
       updateCategory("u1", c, updates)
  \/ \E c \in DOMAIN categories :
       createTransaction("u1", 1, c, 4, categories[c].type)
  \/ \E t \in DOMAIN transactions \cup {MissingId}, updates \in TxnUpdates :
       updateTransaction("u1", t, updates)

SpecUpdate == Init /\ [][NextUpdate]_vars

----------------------------------------------------------------------------
(* Properties *)

\* C1: after account creation and after every completed transaction create,
\* update, delete or bulk import, the balance of every account equals its
\* initialBalance plus its linked income minus its linked expenses.
C1_BalanceIsLedger ==
  \A a \in DOMAIN accounts : accounts[a].balance = LedgerBalance(a)

C3_CreateThenDeleteRestores ==
  (last.op = "deleteTransaction" /\ last.undone)
    => /\ last.txn \notin DOMAIN transactions
       /\ accounts[last.account].balance = last.before

\* C4: two createTransaction requests that run concurrently on one account
\* can lose an update: when both read the account before either saves it, the
\* saved balance is the balance they read plus the effect of the last save
\* only.
C4_LostUpdate ==
  \A p \in Procs, q \in Procs :
    ( /\ p # q
      /\ pc[p] = "done" /\ pc[q] = "done"
      /\ rq[p].accountId = rq[q].accountId
      /\ doc[p].seen = 0 /\ doc[q].seen = 0
      /\ writes[Len(writes)].proc = q )
    => /\ doc[p].balance = doc[q].balance
       /\ accounts[rq[q].accountId].balance
            = Round2(doc[p].balance + Signed(rq[q].type, rq[q].amount))

\* C4 happens: both requests of whole cents are done on one account, both
\* read before either save, and the balance is not the ledger balance.
C4_Witness ==
  \E p \in Procs, q \in Procs :
    /\ p # q
    /\ pc[p] = "done" /\ pc[q] = "done"
    /\ rq[p].accountId = rq[q].accountId
    /\ rq[p].amount = 4 /\ rq[q].amount = 4
    /\ doc[p].seen = 0 /\ doc[q].seen = 0
    /\ accounts[rq[q].accountId].balance # LedgerBalance(rq[q].accountId)

\* C5: after any sequence of transaction creates and updates, every stored
\* transaction has the type of its category.
C5_TypeIsCategoryType ==
  \A t \in DOMAIN transactions :
    transactions[t].categoryId \in DOMAIN categories
      => transactions[t].type = categories[transactions[t].categoryId].type

\* C6: every transaction references an account and a category of its own
\* owner, and no request of a user changes the balance of an account that
\* another user owns.
C6_OwnerIsolation ==
  /\ [](\A t \in DOMAIN transactions :
          /\ transactions[t].accountId \in DOMAIN accounts
               => accounts[transactions[t].accountId].userId = transactions[t].userId
          /\ transactions[t].categoryId \in DOMAIN categories
               => categories[transactions[t].categoryId].userId = transactions[t].userId)
  /\ [][\A a \in DOMAIN accounts :
          (a \in DOMAIN accounts' /\ accounts'[a].balance # accounts[a].balance)
            => accounts[a].userId = last'.user]_vars

\* C7: a createTransaction request with a negative (-5.00) or zero amount is
\* rejected with 400 whatever account, category and type it names, and a
\* rejected request persists no transaction and changes no balance.
C7_NonPositiveAmountRejected ==
  /\ [](\A u \in registered, a \in DOMAIN accounts \cup {MissingId},
           c \in DOMAIN categories \cup {MissingId}, amount \in {-1000, 0},
           type \in Types :
          createTransactionStatus(u, a, c, amount, type) = 400)
  /\ [][(last'.op = "createTransaction" /\ last'.status = 400)
          => UNCHANGED <<accounts, transactions>>]_vars

\* C7 happens: a request got 400 while a transaction and its balance exist.
C7_Witness ==
  /\ last.op = "createTransaction"
  /\ last.status = 400
  /\ \E t \in DOMAIN transactions :
       accounts[transactions[t].accountId].balance # 0

\* C8: createTransaction answers 404 when its account does not exist, is not
\* owned by the requester or is inactive, or when its category does not
\* exist, is not owned by the requester, is inactive or has another type than
\* the request (a request whose amount fails validation is answered 400
\* before any lookup); in each of these cases the request is rejected, no
\* transaction is persisted and no balance changes.
C8_BadReferenceIs404 ==
  /\ [](\A u \in registered, a \in DOMAIN accounts \cup {MissingId},
           c \in DOMAIN categories \cup {MissingId}, amount \in TxnAmounts,
           type \in Types :
          ( \/ a \notin DOMAIN accounts
            \/ accounts[a].userId # u
            \/ ~accounts[a].isActive
            \/ c \notin DOMAIN categories
            \/ categories[c].userId # u
            \/ ~categories[c].isActive
            \/ categories[c].type # type )
          => createTransactionStatus(u, a, c, amount, type)
               = IF amount > 0 THEN 404 ELSE 400)
  /\ [][(last'.op = "createTransaction" /\ last'.status # 201)
          => UNCHANGED <<accounts, transactions>>]_vars

\* C8 happens: a request got 404 in a state where the requester has an
\* inactive account and an inactive category, another user has accounts, and
\* a transaction exists.
C8_Witness ==
  /\ last.op = "createTransaction"
  /\ last.status = 404
  /\ \E a \in DOMAIN accounts : accounts[a].userId = last.user /\ ~accounts[a].isActive
  /\ \E c \in DOMAIN categories :
       categories[c].userId = last.user /\ ~categories[c].isActive
  /\ \E a \in DOMAIN accounts : accounts[a].userId # last.user
  /\ transactions # <<>>

\* C9: a bulk import of a non-empty batch by a user with an active account
\* answers counts with imported + errors = total; the batch of the row
\* (100, 'Pay', '2024-01-01') and the row (-1, '', '') gives imported 1,
\* errors 1 and raises the balance of the first account by 100.
C9_BulkCounts ==
  ( /\ last.op = "bulkImport"
    /\ Len(last.batch) > 0
    /\ userAccounts(last.user) # {} )
  => /\ last.status = 200
     /\ last.imported + last.errors = last.total
     /\ last.total = Len(last.batch)
     /\ last.batch = <<Row(Num(20000), "Pay", "2024-01-01"), Row(Num(-200), "", "")>>
          => /\ last.imported = 1
             /\ last.errors = 1
             /\ accounts[last.account].balance = last.before + 20000

\* a row with a numeric non-zero amount, a description that is not blank and
\* a date that parses
WellFormed(row) ==
  /\ row.amount.kind = "number"
  /\ row.amount.num # 0
  /\ row.description \notin {"", "   "}
  /\ row.date = "2024-01-01"

\* C10: a bulk import never aborts the batch because of a bad row: for a
\* batch with at least one well-formed row, every well-formed row that has a
\* category of its type is inserted and its effect applied, whatever defect
\* the other rows have.
C10_BadRowsDoNotAbort ==
  LET good == {i \in DOMAIN last.batch :
                 WellFormed(last.batch[i]) /\ RowCategory(last.user, last.batch[i]) # {}}
  IN ( /\ last.op = "bulkImport"
       /\ userAccounts(last.user) # {}
       /\ good # {} )
     => /\ last.status = 200
        /\ last.imported = Cardinality(good)
        /\ accounts[last.account].balance =
             last.before
               + SumOver([i \in good |->
                            Signed(RowType(last.batch[i]),
                                   Abs(last.batch[i].amount.num))], good)

\* the rows of the last batch that are well formed and have an active
\* category of their type: the rows a bulk import has to insert
GoodRows(u, batch) ==
  {i \in DOMAIN batch :
     /\ WellFormed(batch[i])
     /\ \E c \in DOMAIN categories :
          /\ categories[c].userId = u
          /\ categories[c].isActive
          /\ categories[c].type = (IF batch[i].amount.num >= 0 THEN "income" ELSE "expense")}

\* the first active account of u, in the order of the collection
FirstActiveAccount(u) ==
  MinOf({a \in DOMAIN accounts : accounts[a].userId = u /\ accounts[a].isActive})

\* C11: a bulk import assigns all valid rows of the batch to the first active
\* account of the importing user, and changes the balance of that account
\* (and of no other) by the sum over the valid rows of +amount for income and
\* -amount for expense; rejected rows add nothing.
C11_BulkOneAccountOneDelta ==
  [][ ( /\ last'.op = "bulkImport"
        /\ Len(last'.batch) > 0
        /\ userAccounts(last'.user) # {} )
      =>
      LET u == last'.user
          batch == last'.batch
          good == GoodRows(u, batch)
          first == FirstActiveAccount(u)
          new == DOMAIN transactions' \ DOMAIN transactions
      IN /\ Cardinality(new) = Cardinality(good)
         /\ \A t \in new : transactions'[t].accountId = first
         /\ accounts'[first].balance =
              accounts[first].balance
                + SumOver([i \in good |-> batch[i].amount.num], good)
         /\ \A a \in DOMAIN accounts \ {first} : accounts'[a] = accounts[a]
    ]_vars

\* C12: in a bulk import a row that names no category gets the first active
\* category, in the order of the user's category list, whose type is the type
\* inferred from the sign of the amount; the row fails for want of a category
\* only if the user has no active category of that type.
C12_FirstCategoryOfType ==
  [][ (last'.op = "bulkImport" /\ last'.status = 200)
      =>
      LET u == last'.user
          new == DOMAIN transactions' \ DOMAIN transactions
      IN /\ \A t \in new :
              transactions'[t].categoryId =
                MinOf({c \in DOMAIN categories :
                         /\ categories[c].userId = u
                         /\ categories[c].isActive
                         /\ categories[c].type = transactions'[t].type})
         /\ \A j \in DOMAIN last'.details :
              last'.details[j].error = "No category found"
                => ~\E c \in DOMAIN categories :
                      /\ categories[c].userId = u
                      /\ categories[c].isActive
                      /\ categories[c].type = RowType(last'.batch[last'.details[j].row])
    ]_vars

\* the rows of batch, from row i on, that are not good, in input order
RECURSIVE FailedRowsFrom(_, _, _)
FailedRowsFrom(u, batch, i) ==
  IF i > Len(batch) THEN <<>>
  ELSE IF i \in GoodRows(u, batch) THEN FailedRowsFrom(u, batch, i + 1)
  ELSE <<i>> \o FailedRowsFrom(u, batch, i + 1)

\* C13: in a bulk import every row that fails validation is left out of the
\* insertion and has exactly one error entry, whose row number is the 1-based
\* position of the row in the batch; the error entries are in input order and
\* no inserted transaction belongs to a failed row.
C13_OneErrorPerFailedRow ==
  ( /\ last.op = "bulkImport"
    /\ Len(last.batch) > 0
    /\ userAccounts(last.user) # {} )
  => LET failed == FailedRowsFrom(last.user, last.batch, 1)
     IN /\ Len(last.details) = Len(failed)
        /\ \A j \in DOMAIN last.details : last.details[j].row = failed[j]
        /\ last.imported = Len(last.batch) - Len(failed)

\* C14: deleteAccount removes an account that has no linked transaction;
\* an account with one or more linked transactions is kept with isActive
\* false, its balance and all of its transactions in place.
C14_DeleteOrDeactivate ==
  [][ (last'.op = "deleteAccount" /\ last'.status = 200)
      =>
      LET id == last'.account IN
      /\ transactions' = transactions
      /\ IF TxnsOfAccount(id) = {}
         THEN id \notin DOMAIN accounts'
         ELSE /\ id \in DOMAIN accounts'
              /\ accounts'[id] = [accounts[id] EXCEPT !.isActive = FALSE]
    ]_vars

\* C15: after any sequence of account creates, updates and deletes, no two
\* active accounts of one owner have the same name.
C15_ActiveNamesUnique ==
  \A a \in DOMAIN accounts, b \in DOMAIN accounts :
    ( /\ a # b
      /\ accounts[a].userId = accounts[b].userId
      /\ accounts[a].isActive
      /\ accounts[b].isActive )
    => accounts[a].name # accounts[b].name

\* C16: the initialBalance of an account is set once, when the account is
\* first stored, to its balance at creation, and no later operation changes
\* it.
C16_InitialBalanceFixed ==
  [][ \A a \in DOMAIN accounts' :
        IF a \in DOMAIN accounts
        THEN accounts'[a].initialBalance = accounts[a].initialBalance
        ELSE accounts'[a].initialBalance = accounts'[a].balance
    ]_vars

\* C17: after any sequence of budget create, update and delete requests, no
\* two active budgets of the same owner and the same category have
\* overlapping closed intervals [startDate, endDate].
C17_NoOverlappingBudgets ==
  \A a \in DOMAIN budgets, b \in DOMAIN budgets :
    ( /\ a # b
      /\ budgets[a].userId = budgets[b].userId
      /\ budgets[a].categoryId = budgets[b].categoryId
      /\ budgets[a].isActive
      /\ budgets[b].isActive )
    => ~( /\ budgets[a].startDate <= budgets[b].endDate
          /\ budgets[b].startDate <= budgets[a].endDate )

\* the end of the date range is not after its start, both being dates
StartGeqEnd(startDate, endDate) ==
  /\ startDate # InvalidDate
  /\ endDate # InvalidDate
  /\ startDate >= endDate

\* C18: every stored budget has its endDate strictly after its startDate:
\* createBudget and updateBudget reject every request whose resulting
\* startDate is greater than or equal to its resulting endDate, and a
\* rejected request leaves the stored budgets unchanged.
C18_EndAfterStart ==
  /\ [](\A b \in DOMAIN budgets : budgets[b].endDate > budgets[b].startDate)
  /\ [](\A u \in registered, c \in DOMAIN categories \cup {MissingId},
           startDate \in DateStrings, endDate \in DateStrings :
          StartGeqEnd(newDate(startDate), newDate(endDate))
            => createBudgetStatus(u, c, startDate, endDate) \in {400, 404})
  /\ [](\A u \in registered, b \in DOMAIN budgets, updates \in BudgetUpdates :
          ( /\ budgets[b].userId = u
            /\ StartGeqEnd(newStartDate(budgets[b], updates),
                           newEndDate(budgets[b], updates)) )
            => updateBudgetStatus(u, b, updates) \in {400, 404})
  /\ [][ ( /\ last'.op \in {"createBudget", "updateBudget"}
           /\ last'.status \notin {200, 201} )
         => budgets' = budgets ]_vars

\* an updateBudget request on a stored budget was answered 400, the answer
\* to a resulting startDate that is not before the resulting endDate, while
\* another budget is stored
C18_Witness ==
  /\ last.op = "updateBudget"
  /\ last.status = 400
  /\ last.budget \in DOMAIN budgets
  /\ Cardinality(DOMAIN budgets) = MaxBudgets

\* C19: after any sequence of budget creates and updates and category
\* updates, every stored budget references an expense category owned by the
\* owner of the budget.
C19_BudgetCategoryIsOwnExpense ==
  \A b \in DOMAIN budgets :
    /\ budgets[b].categoryId \in DOMAIN categories
    /\ categories[budgets[b].categoryId].type = "expense"
    /\ categories[budgets[b].categoryId].userId = budgets[b].userId

\* request bodies that carry a name or a type, alone or next to other keys
NameOrTypeBodies ==
  {[name |-> n] : n \in CategoryNames}
    \cup {[type |-> t] : t \in Types}
    \cup {[name |-> n, type |-> t] : n \in CategoryNames, t \in Types}
    \cup {[name |-> n, isDefault |-> FALSE] : n \in CategoryNames}
    \cup {[type |-> t, isDefault |-> FALSE] : t \in Types}

\* C20: a category flagged isDefault is protected: an updateCategory request
\* that carries a name or a type is rejected and leaves the category
\* unchanged, and a deleteCategory request is rejected and neither removes
\* nor deactivates the category, whether or not transactions reference it.
C20_DefaultCategoryProtected ==
  /\ [](\A c \in DOMAIN categories :
          categories[c].isDefault =>
            /\ \A updates \in NameOrTypeBodies :
                 updateCategoryStatus(categories[c].userId, c, updates) = 400
            /\ deleteCategoryStatus(categories[c].userId, c) = 400)
  /\ [][ ( /\ last'.op \in {"updateCategory", "deleteCategory"}
           /\ last'.status = 400 )
         => categories' = categories ]_vars

\* a deleteCategory request was answered 400 while the only category still
\* flagged isDefault, which the request was therefore about, is referenced
\* by a transaction and is stored and active
C20_Witness ==
  /\ last.op = "deleteCategory"
  /\ last.status = 400
  /\ \E c \in DOMAIN categories :
       /\ categories[c].isDefault
       /\ categories[c].isActive
       /\ \A d \in DOMAIN categories \ {c} : ~categories[d].isDefault
       /\ \E t \in DOMAIN transactions : transactions[t].categoryId = c

\* C21: no persisted category is ever both isDefault and not isActive: a
\* save that would produce that state fails and leaves the stored category
\* unchanged.
C21_NoInactiveDefault ==
  /\ [](\A c \in DOMAIN categories :
          ~(categories[c].isDefault /\ ~categories[c].isActive))
  /\ [](\A c \in DOMAIN categories, updates \in CategoryFlags :
          LET updated == ApplyCategoryUpdates(categories[c], updates)
          IN (updated.isDefault /\ ~updated.isActive)
               => updateCategoryStatus(categories[c].userId, c, updates) = 500)
  /\ [][ (last'.op = "updateCategory" /\ last'.status = 500)
         => categories' = categories ]_vars

\* an updateCategory request that sets a flag failed in save() while an
\* inactive category and a default category are stored
C21_Witness ==
  /\ last.op = "updateCategory"
  /\ last.status = 500
  /\ \E c \in DOMAIN categories : ~categories[c].isActive
  /\ \E c \in DOMAIN categories : categories[c].isDefault

\* C22: no category ever has itself as parentCategory: an updateCategory
\* request whose parentCategory is the id of the category being updated is
\* rejected with 'Invalid parent category' (400) and changes nothing.
C22_NoSelfParent ==
  /\ \A c \in DOMAIN categories : categories[c].parentCategory # c
  /\ \A c \in DOMAIN categories :
       updateCategoryStatus(categories[c].userId, c, [parentCategory |-> c]) = 400

\* C23: category names are unique per owner and only per owner: one owner
\* never has two categories with the same name, whatever their type or
\* active flag, while an owner can create a category with a name that only
\* other owners use.
C23_NamesUniquePerOwner ==
  /\ \A c \in DOMAIN categories, d \in DOMAIN categories :
       (c # d /\ categories[c].userId = categories[d].userId)
         => categories[c].name # categories[d].name
  /\ \A u \in registered, name \in CategoryNames, type \in Types :
       (~\E c \in DOMAIN categories :
            categories[c].userId = u /\ categories[c].name = name)
         => createCategoryStatus(u, name, type, MissingId) = 201

\* the second owner created "Gifts" while the first owner has an inactive
\* category of that name
C23_Witness ==
  /\ last.op = "createCategory"
  /\ last.status = 201
  /\ last.user = "u2"
  /\ \E c \in DOMAIN categories :
       /\ categories[c].userId = "u1"
       /\ categories[c].name = "Gifts"
       /\ ~categories[c].isActive
  /\ \E c \in DOMAIN categories :
       categories[c].userId = "u2" /\ categories[c].name = "Gifts"

\* C24: every uploaded temporary file is removed before the upload request
\* completes, on every path that accepts a file: successful CSV parse, CSV
\* parse failure, empty result, and an accepted non-CSV (.xlsx/.xls) file.
C24_TempFileRemoved ==
  \A p \in Procs :
    (up[p].pc = "done" /\ up[p].file # 0) => up[p].file \notin uploads

\* the weighted sum of the sub-scores, in hundredths
WeightedSum(sc) ==
  Frac(25 * sc.savingsRate.n * sc.budgetAdherence.d * sc.emergencyFund.d
            * sc.expenseControl.d * sc.debtManagement.d
       + 25 * sc.budgetAdherence.n * sc.savingsRate.d * sc.emergencyFund.d
            * sc.expenseControl.d * sc.debtManagement.d
       + 20 * sc.emergencyFund.n * sc.savingsRate.d * sc.budgetAdherence.d
            * sc.expenseControl.d * sc.debtManagement.d
       + 15 * sc.expenseControl.n * sc.savingsRate.d * sc.budgetAdherence.d
            * sc.emergencyFund.d * sc.debtManagement.d
       + 15 * sc.debtManagement.n * sc.savingsRate.d * sc.budgetAdherence.d
            * sc.emergencyFund.d * sc.expenseControl.d,
       100 * sc.savingsRate.d * sc.budgetAdherence.d * sc.emergencyFund.d
           * sc.expenseControl.d * sc.debtManagement.d)

\* the request of the example: income 2000, expenses 1600, one account with
\* balance 4800, no budgets
ExampleHealth ==
  [income |-> 20, expenses |-> 16,
   accounts |-> <<[type |-> "checking", balance |-> 48]>>, budgets |-> <<>>]

\* C25: the overall score is the weighted sum 0.25 savingsRate + 0.25
\* budgetAdherence + 0.20 emergencyFund + 0.15 expenseControl + 0.15
\* debtManagement of the sub-scores, rounded to the nearest integer; for
\* income 2000, expenses 1600, balance 4800, no budgets and no credit
\* account the sub-scores are 100, 100, 100, 20, 100 and the score is 88.
C25_OverallScore ==
  health.asked =>
    /\ 2 * WeightedSum(health.scores).d * health.overallScore
         <= 2 * WeightedSum(health.scores).n + WeightedSum(health.scores).d
    /\ 2 * WeightedSum(health.scores).n + WeightedSum(health.scores).d
         < 2 * WeightedSum(health.scores).d * (health.overallScore + 1)
    /\ health.in = ExampleHealth =>
         /\ health.scores = [savingsRate |-> Frac(100, 1),
                             budgetAdherence |-> Frac(100, 1),
                             emergencyFund |-> Frac(100, 1),
                             expenseControl |-> Frac(20, 1),
                             debtManagement |-> Frac(100, 1)]
         /\ health.overallScore = 88

\* the handler answered the request of the example
C25_Witness == health.asked /\ health.in = ExampleHealth

\* the fraction lies in [0, 100]
InRange(x) == 0 <= x.n /\ x.n <= 100 * x.d

\* C26: for every combination of last-month income and expenses, account
\* balances (negative ones included) and budgets, each of the five
\* sub-scores lies in [0, 100], and so does the overall score.
C26_ScoresInRange ==
  health.asked =>
    /\ InRange(health.scores.savingsRate)
    /\ InRange(health.scores.budgetAdherence)
    /\ InRange(health.scores.emergencyFund)
    /\ InRange(health.scores.expenseControl)
    /\ InRange(health.scores.debtManagement)
    /\ health.overallScore \in 0..100

C28_HistoryEndsAtBalance ==
  \A a \in DOMAIN accounts :
    runningBalance(accounts[a].userId, a) = accounts[a].balance

\* C29: under sequential execution every stored transaction references an
\* account record and a category record that still exist, active or not.
C29_ReferencesExist ==
  \A t \in DOMAIN transactions :
    /\ transactions[t].accountId \in DOMAIN accounts
    /\ transactions[t].categoryId \in DOMAIN categories

\* the request names a transaction that is missing or not the requester's, a
\* new account that is missing, not the requester's or inactive, or a new
\* category that is missing, not the requester's, inactive or of another
\* type than the resulting type of the transaction
Rejectable(u, id, updates) ==
  \/ id \notin DOMAIN transactions
  \/ transactions[id].userId # u
  \/ /\ Has(updates, "accountId")
     /\ updates.accountId # transactions[id].accountId
     /\ \/ updates.accountId \notin DOMAIN accounts
        \/ accounts[updates.accountId].userId # u
        \/ ~accounts[updates.accountId].isActive
  \/ /\ Has(updates, "categoryId")
     /\ \/ updates.categoryId \notin DOMAIN categories
        \/ categories[updates.categoryId].userId # u
        \/ ~categories[updates.categoryId].isActive
        \/ categories[updates.categoryId].type
             # (IF Has(updates, "type") THEN updates.type ELSE transactions[id].type)

\* C30: an updateTransaction request that is rejected (transaction not found
\* or not owned, new account missing, not owned or inactive, new category
\* missing, not owned, inactive or of the wrong type) is answered 404 and
\* leaves the stored transactions and every account balance unchanged.
C30_RejectedUpdateChangesNothing ==
  /\ [](\A u \in registered, id \in DOMAIN transactions \cup {MissingId},
           updates \in TxnUpdates :
          Rejectable(u, id, updates)
            => updateTransactionStatus(u, id, updates) \in {400, 404})
  /\ [][ ( /\ last'.op = "updateTransaction"
           /\ last'.status \in {400, 404} )
         => UNCHANGED <<accounts, transactions>> ]_vars

\* an updateTransaction request was answered 404 while a transaction is
\* stored and the requester has an inactive account and an inactive category
C30_Witness ==
  /\ last.op = "updateTransaction"
  /\ last.status = 404
  /\ \E t \in DOMAIN transactions : transactions[t].userId = last.user
  /\ \E a \in DOMAIN accounts :
       accounts[a].userId = last.user /\ ~accounts[a].isActive
  /\ \E c \in DOMAIN categories :
       categories[c].userId = last.user /\ ~categories[c].isActive

====
